---- MODULE Spec2Model ----
(***************************************************************************)
(* Model of app.py, the YouTube transcript summarizer: the URL-to-video-id *)
(* extractor (get_video_id), the transcript retriever                      *)
(* (extract_transcript_details), the summary generator                     *)
(* (generate_gemini_content) and the "Generate Summary" button handler.    *)
(*                                                                         *)
(* URLs are sequences of one-character strings, so that the slicing,       *)
(* splitting and comparing the code does is modelled character by          *)
(* character.  Python indexes from 0, TLA+ sequences from 1; every index   *)
(* below is the Python index plus one.  Transcript and summary texts are   *)
(* TLA+ strings.  The two external services are nondeterministic: every    *)
(* call may return any of the outcomes its interface allows.               *)
(***************************************************************************)
EXTENDS Integers, Sequences, FiniteSets, TLC

\* ------------------------------------------------------------------------
\* Character-sequence helpers (the Python str operations the code uses)
\* ------------------------------------------------------------------------

\* s[i:] with 1-based i: the suffix starting at position i
From(s, i) == SubSeq(s, i, Len(s))

\* s[:n]: the first n characters (fewer when s is shorter)
Take(s, n) == SubSeq(s, 1, IF n < Len(s) THEN n ELSE Len(s))

\* c in s
Contains(s, c) == \E i \in 1..Len(s) : s[i] = c

\* s.find(c) + 1: position of the first c in s, 0 when there is none
FirstIndex(s, c) ==
    IF Contains(s, c)
    THEN CHOOSE i \in 1..Len(s) : s[i] = c /\ \A j \in 1..(i - 1) : s[j] # c
    ELSE 0

\* s.partition(c)[0]
Before(s, c) == IF Contains(s, c) THEN SubSeq(s, 1, FirstIndex(s, c) - 1) ELSE s

\* s.partition(c)[2]
After(s, c) == IF Contains(s, c) THEN From(s, FirstIndex(s, c) + 1) ELSE <<>>

\* s.split(c): the pieces of s between the occurrences of c
RECURSIVE Split(_, _)
Split(s, c) ==
    IF Contains(s, c)
    THEN <<Before(s, c)>> \o Split(After(s, c), c)
    ELSE <<s>>

\* the upper-case letters of the input alphabet and their lower-case forms
UpperToLower == ("Y" :> "y") @@ ("T" :> "t")

\* str.lower()
Lower(s) == [i \in 1..Len(s) |->
               IF s[i] \in DOMAIN UpperToLower THEN UpperToLower[s[i]] ELSE s[i]]

Letters == {"a", "b", "c", "d", "e", "h", "m", "o", "p", "s", "t", "u", "v",
            "w", "y", "Y", "T"}
Digits == {"0", "1", "8"}

\* urllib.parse.scheme_chars restricted to the input alphabet
SchemeChars == Letters \cup Digits \cup {"+", "-", "."}

\* ------------------------------------------------------------------------
\* urllib.parse.urlparse / ParseResult.hostname / parse_qs
\* ------------------------------------------------------------------------

\* the scheme test of urlsplit: a ':' after position 0, a letter first and
\* only scheme characters before the ':'
HasScheme(url) ==
    /\ FirstIndex(url, ":") > 1
    /\ url[1] \in Letters
    /\ \A k \in 1..(FirstIndex(url, ":") - 1) : url[k] \in SchemeChars

SchemeOf(url) ==
    IF HasScheme(url) THEN Lower(SubSeq(url, 1, FirstIndex(url, ":") - 1)) ELSE <<>>

AfterScheme(url) ==
    IF HasScheme(url) THEN From(url, FirstIndex(url, ":") + 1) ELSE url

\* _splitnetloc(url, 2): the netloc ends at the first of '/', '?', '#'
NetlocEnd(rest) ==
    LET ds == {i \in 3..Len(rest) : rest[i] \in {"/", "?", "#"}}
    IN  IF ds = {} THEN Len(rest) + 1
        ELSE CHOOSE i \in ds : \A j \in ds : i <= j

HasNetloc(rest) == Take(rest, 2) = <<"/", "/">>

NetlocOf(rest) == IF HasNetloc(rest) THEN SubSeq(rest, 3, NetlocEnd(rest) - 1) ELSE <<>>

AfterNetloc(rest) == IF HasNetloc(rest) THEN From(rest, NetlocEnd(rest)) ELSE rest

\* urlparse(url): the exception it raises ("none" when it returns) and the
\* components of the ParseResult.  The input alphabet has no ';' (params),
\* no ']' and no non-ASCII character, so a '[' in the netloc is always the
\* unbalanced case, "Invalid IPv6 URL".
urlparse(url) ==
    LET rest   == AfterScheme(url)
        netloc == NetlocOf(rest)
        tail   == AfterNetloc(rest)
        nofrag == Before(tail, "#")
    IN  IF Contains(netloc, "[") /\ ~Contains(netloc, "]")
        THEN [exc |-> "ValueError", scheme |-> <<>>, netloc |-> <<>>,
              path |-> <<>>, query |-> <<>>, fragment |-> <<>>]
        ELSE [exc |-> "none", scheme |-> SchemeOf(url), netloc |-> netloc,
              path |-> Before(nofrag, "?"), query |-> After(nofrag, "?"),
              fragment |-> After(tail, "#")]

\* netloc.rpartition('@')[2]: what follows the last '@', all of it when
\* there is none
HostInfo(netloc) ==
    LET ats == {i \in 1..Len(netloc) : netloc[i] = "@"}
    IN  IF ats = {} THEN netloc
        ELSE From(netloc, (CHOOSE i \in ats : \A j \in ats : j <= i) + 1)

\* ParseResult.hostname: the host part of the netloc, without the port,
\* lower-cased; None (hasHost FALSE) when it is empty
hostname(parsed) ==
    LET h == Before(HostInfo(parsed.netloc), ":")
    IN  [hasHost |-> h # <<>>, name |-> Lower(h)]

\* unquote(s.replace('+', ' ')): the input alphabet has no '%'
UnquotePlus(s) == [i \in 1..Len(s) |-> IF s[i] = "+" THEN " " ELSE s[i]]

\* parse_qsl(qs): the (name, value) pairs, in order; fields without '=' and
\* fields with a blank value are dropped (keep_blank_values=False)
RECURSIVE PairsOf(_)
PairsOf(fields) ==
    IF fields = <<>> THEN <<>>
    ELSE LET f == Head(fields)
         IN  (IF f # <<>> /\ Contains(f, "=") /\ After(f, "=") # <<>>
              THEN <<[name  |-> UnquotePlus(Before(f, "=")),
                      value |-> UnquotePlus(After(f, "="))]>>
              ELSE <<>>) \o PairsOf(Tail(fields))

parse_qsl(qs) == PairsOf(Split(qs, "&"))

\* parse_qs(qs)[key]: the list of the values of key, in order
ValuesOf(qs, key) ==
    LET ps == parse_qsl(qs)
    IN  SelectSeq(ps, LAMBDA p : p.name = key)

\* ------------------------------------------------------------------------
\* get_video_id
\* ------------------------------------------------------------------------

youtu_be        == <<"y", "o", "u", "t", "u", ".", "b", "e">>
youtube_com     == <<"y", "o", "u", "t", "u", "b", "e", ".", "c", "o", "m">>
www_youtube_com == <<"w", "w", "w", ".">> \o youtube_com
watch_path      == <<"/", "w", "a", "t", "c", "h">>
embed_prefix    == <<"/", "e", "m", "b", "e", "d", "/">>
v_prefix        == <<"/", "v", "/">>
v_key           == <<"v">>

\* results of get_video_id: a returned identifier, a returned None, or a
\* raised exception
Returned(id)   == [exc |-> "none", isNone |-> FALSE, val |-> id]
ReturnedNone   == [exc |-> "none", isNone |-> TRUE, val |-> <<>>]
Raised(e)      == [exc |-> e, isNone |-> FALSE, val |-> <<>>]

\* query.path.split('/')[2]
ThirdPiece(path) ==
    LET ps == Split(path, "/")
    IN  IF Len(ps) >= 3 THEN Returned(ps[3]) ELSE Raised("IndexError")

\* parse_qs(query.query)['v'][0]
WatchId(qs) ==
    LET vs == ValuesOf(qs, v_key)
    IN  IF vs = <<>> THEN Raised("KeyError") ELSE Returned(vs[1].value)

\* query.path[1:]
ShortLinkId(path) == Returned(From(path, 2))

get_video_id(url) ==
    LET query == urlparse(url)
    IN  IF query.exc # "none" THEN Raised(query.exc)
        ELSE LET host == hostname(query)
             IN  IF host.hasHost /\ host.name = youtu_be
                 THEN ShortLinkId(query.path)
                 ELSE IF host.hasHost /\ host.name \in {www_youtube_com, youtube_com}
                 THEN IF query.path = watch_path THEN WatchId(query.query)
                      ELSE IF Take(query.path, 7) = embed_prefix
                      THEN ThirdPiece(query.path)
                      ELSE IF Take(query.path, 3) = v_prefix
                      THEN ThirdPiece(query.path)
                      ELSE ReturnedNone
                 ELSE ReturnedNone

\* ------------------------------------------------------------------------
\* Inputs
\* ------------------------------------------------------------------------

\* longest transcript (in segments) the transcript service returns
MaxSegments == 2

SegTexts == {"", "Hello", "world"}

RECURSIVE SeqsUpTo(_, _)
SeqsUpTo(S, n) ==
    IF n = 0 THEN {<<>>}
    ELSE LET shorter == SeqsUpTo(S, n - 1)
         IN  shorter \cup {Append(s, x) : s \in shorter, x \in S}

\* the segment lists a transcript fetch may return (the 'text' fields)
Transcripts == SeqsUpTo(SegTexts, MaxSegments)

\* the summaries response.text may hold
SummaryTexts == {"", "Summary"}

\* the messages of the errors GenerativeModel(name) may raise
ModelErrors == {"404 model not found", "403 permission denied"}

\* the exceptions the transcript service raises
TranscriptExceptions == {"TranscriptsDisabled", "NoTranscriptFound", "Exception"}

\* str(e) of an exception of the transcript or the generation service
ServiceMessage == "service unavailable"

https    == <<"h", "t", "t", "p", "s", ":", "/", "/">>
Prefixes == {https, <<>>, https \o <<"[">>}

Hosts == {youtu_be, www_youtube_com, youtube_com,
          <<"m", ".">> \o youtube_com,
          <<"Y", "o", "u", "T", "u", ".", "b", "e">>,
          <<"u", "@">> \o youtu_be \o <<":", "8", "0">>}

id_ab == <<"a", "b">>
q_v   == <<"?", "v", "=">>

\* what follows the host: path, query and fragment
Tails == {<<>>, <<"/">>,
          <<"/">> \o id_ab,
          <<"/">> \o id_ab \o <<"/">>,
          <<"/">> \o id_ab \o <<"/", "c">>,
          <<"/">> \o id_ab \o <<"?", "t", "=", "1">>,
          watch_path,
          watch_path \o q_v \o id_ab,
          watch_path \o q_v,
          watch_path \o <<"?", "v">>,
          watch_path \o <<"?", "t", "=", "1">>,
          watch_path \o <<"?", "t", "=", "1", "&", "v", "=">> \o id_ab,
          watch_path \o q_v \o id_ab \o <<"&", "v", "=", "c">>,
          watch_path \o q_v \o <<"a", "+", "b">>,
          watch_path \o q_v \o id_ab \o <<"#", "t">>,
          watch_path \o <<"#", "v", "=">> \o id_ab,
          watch_path \o <<"/">> \o q_v \o id_ab,
          embed_prefix \o id_ab,
          embed_prefix \o id_ab \o <<"/", "c">>,
          embed_prefix,
          <<"/", "e", "m", "b", "e", "d">>,
          v_prefix \o id_ab,
          v_prefix}

\* the texts the user may have typed into the URL field
URLs == {<<>>} \cup {p \o h \o t : p \in Prefixes, h \in Hosts, t \in Tails}

\* ------------------------------------------------------------------------
\* State
\* ------------------------------------------------------------------------

VARIABLES
    pc,            \* position of the script run that the button click started
    youtube_link,  \* the text of the URL field
    vid,           \* what get_video_id did on youtube_link
    fetched,       \* the segment texts the last successful fetch returned
    transcript,    \* the shell's transcript: extract_transcript_details' result
    tried,         \* how many entries of model_names_to_try the loop has tried
    model,         \* the name of the loaded model, "None" when none is loaded
    last_error,    \* last_error of generate_gemini_content, "None" at first
    summary,       \* the shell's summary: generate_gemini_content's result
    log            \* the service calls made and the UI elements shown, in order

vars == <<pc, youtube_link, vid, fetched, transcript, tried, model, last_error,
          summary, log>>

\* Python values that may be None
None     == [isNone |-> TRUE, text |-> ""]
Text(t)  == [isNone |-> FALSE, text |-> t]

\* Python truthiness of an optional string: neither None nor ''
Truthy(v) == ~v.isNone /\ v.text # ""

NotCalled == [exc |-> "notcalled", isNone |-> TRUE, val |-> <<>>]

\* log entries
Call(name, arg, outcome) == [ev |-> name, arg |-> arg, out |-> outcome]
Shown(widget, content)   == [ev |-> widget, arg |-> content, out |-> ""]

\* (mutation) the candidates in another order
model_names_reordered == <<"gemini-pro", "gemini-1.5-pro-latest", "models/gemini-pro">>

model_names_to_try == <<"gemini-1.5-pro-latest", "gemini-pro", "models/gemini-pro">>

\* (mutation) the separator is dropped
RECURSIVE Join_NoSeparator(_, _)
Join_NoSeparator(sep, texts) ==
    IF texts = <<>> THEN ""
    ELSE texts[1] \o Join_NoSeparator(sep, Tail(texts))

\* " ".join(texts)
RECURSIVE Join(_, _)
Join(sep, texts) ==
    IF texts = <<>> THEN ""
    ELSE IF Len(texts) = 1 THEN texts[1]
    ELSE texts[1] \o sep \o Join(sep, Tail(texts))

\* str(e) of the exceptions get_video_id raises
ExcMessage(e) ==
    IF e = "KeyError" THEN "'v'"
    ELSE IF e = "ValueError" THEN "Invalid IPv6 URL"
    ELSE "list index out of range"

\* the except clauses of extract_transcript_details: the notice for an
\* exception of the transcript service
TranscriptErrorNotice(e) ==
    IF e = "TranscriptsDisabled"
    THEN Shown("st.error", "Transcripts are disabled for this video")
    ELSE IF e = "NoTranscriptFound"
    THEN Shown("st.error", "No transcripts found for this video")
    ELSE Shown("st.error", "Error: " \o ServiceMessage)

Init ==
    /\ pc = "idle"
    /\ youtube_link = <<>>
    /\ vid = NotCalled
    /\ fetched = <<>>
    /\ transcript = None
    /\ tried = 0
    /\ model = "None"
    /\ last_error = "None"
    /\ summary = None
    /\ log = <<>>

\* ------------------------------------------------------------------------
\* The "Generate Summary" handler, one action per step between service calls
\* ------------------------------------------------------------------------

\* the user presses the button with url in the field; an empty field gets
\* the warning and st.stop()
Click(url) ==
    /\ pc = "idle"
    /\ youtube_link' = url
    /\ IF url = <<>>
       THEN /\ log' = Append(log, Shown("st.warning", "Please enter a YouTube URL"))
            /\ pc' = "stopped"
       ELSE /\ log' = log
            /\ pc' = "get_video_id"
    /\ UNCHANGED <<vid, fetched, transcript, tried, model, last_error, summary>>

\* extract_transcript_details up to the first service call: get_video_id,
\* the "if not video_id" test and the handler of an exception it raised
ExtractId ==
    /\ pc = "get_video_id"
    /\ vid' = get_video_id(youtube_link)
    /\ IF vid'.exc # "none"
       THEN /\ log' = Append(log, Shown("st.error", "Error: " \o ExcMessage(vid'.exc)))
            /\ pc' = "retrieved"
       ELSE IF vid'.isNone \/ vid'.val = <<>>
       THEN /\ log' = Append(log, Shown("st.error", "Invalid YouTube URL format"))
            /\ pc' = "retrieved"
       ELSE /\ log' = log
            /\ pc' = "list_transcripts"
    /\ transcript' = None
    /\ UNCHANGED <<youtube_link, fetched, tried, model, last_error, summary>>

\* (mutation) the "if not transcript_list" test never fires
ListIsEmpty_Never(outcome) == FALSE

\* "if not transcript_list": the listing came back and is falsy
ListIsEmpty(outcome) == outcome = "empty"

\* YouTubeTranscriptApi.list_transcripts(video_id) and the test of its result
ListTranscripts(outcome) ==
    /\ pc = "list_transcripts"
    /\ IF ListIsEmpty(outcome)
       THEN /\ log' = log \o <<Call("list_transcripts", "", outcome),
                               Shown("st.warning", "No transcripts available for this video")>>
            /\ pc' = "retrieved"
       ELSE IF outcome \in {"ok", "empty"}
       THEN /\ log' = Append(log, Call("list_transcripts", "", outcome))
            /\ pc' = "get_transcript_en"
       ELSE /\ log' = log \o <<Call("list_transcripts", "", outcome),
                               TranscriptErrorNotice(outcome)>>
            /\ pc' = "retrieved"
    /\ UNCHANGED <<youtube_link, vid, fetched, transcript, tried, model,
                   last_error, summary>>

\* get_transcript(video_id, languages=['en']) returns segs
FetchEnglishOk(segs) ==
    /\ pc = "get_transcript_en"
    /\ log' = Append(log, Call("get_transcript", "en", "ok"))
    /\ fetched' = segs
    /\ transcript' = Text(Join(" ", segs))
    /\ pc' = "retrieved"
    /\ UNCHANGED <<youtube_link, vid, tried, model, last_error, summary>>

\* (mutation) the except clause asks for the listing again before falling back
FetchEnglishFail_Relist(e) ==
    /\ pc = "get_transcript_en"
    /\ log' = log \o <<Call("get_transcript", "en", e), Call("list_transcripts", "", "ok")>>
    /\ pc' = "get_transcript_default"
    /\ UNCHANGED <<youtube_link, vid, fetched, transcript, tried, model,
                   last_error, summary>>

\* get_transcript(video_id, languages=['en']) raises e: the bare except
\* goes on to the default fetch
FetchEnglishFail(e) ==
    /\ pc = "get_transcript_en"
    /\ log' = Append(log, Call("get_transcript", "en", e))
    /\ pc' = "get_transcript_default"
    /\ UNCHANGED <<youtube_link, vid, fetched, transcript, tried, model,
                   last_error, summary>>

\* get_transcript(video_id) returns segs
FetchDefaultOk(segs) ==
    /\ pc = "get_transcript_default"
    /\ log' = Append(log, Call("get_transcript", "default", "ok"))
    /\ fetched' = segs
    /\ transcript' = Text(Join(" ", segs))
    /\ pc' = "retrieved"
    /\ UNCHANGED <<youtube_link, vid, tried, model, last_error, summary>>

\* get_transcript(video_id) raises e: the outer except clauses report it
FetchDefaultFail(e) ==
    /\ pc = "get_transcript_default"
    /\ log' = log \o <<Call("get_transcript", "default", e), TranscriptErrorNotice(e)>>
    /\ pc' = "retrieved"
    /\ UNCHANGED <<youtube_link, vid, fetched, transcript, tried, model,
                   last_error, summary>>

\* (mutation) the shell goes on to the generator without the st.stop()
AfterRetriever_NoStop ==
    /\ pc = "retrieved"
    /\ pc' = "load_model"
    /\ UNCHANGED <<youtube_link, vid, fetched, transcript, tried, model,
                   last_error, summary, log>>

\* the shell after the retriever: "if not transcript: st.stop()"
AfterRetriever ==
    /\ pc = "retrieved"
    /\ pc' = IF Truthy(transcript) THEN "load_model" ELSE "stopped"
    /\ UNCHANGED <<youtube_link, vid, fetched, transcript, tried, model,
                   last_error, summary, log>>

\* one round of the loop over model_names_to_try: the service accepts the name
LoadModelOk ==
    /\ pc = "load_model"
    /\ tried < Len(model_names_to_try)
    /\ tried' = tried + 1
    /\ model' = model_names_to_try[tried']
    /\ log' = Append(log, Call("GenerativeModel", model_names_to_try[tried'], "ok"))
    /\ pc' = "generate_content"
    /\ UNCHANGED <<youtube_link, vid, fetched, transcript, last_error, summary>>

\* one round of the loop: the service rejects the name with error e; after
\* the last name "if model is None" raises, and the outer except reports it
LoadModelFail(e) ==
    /\ pc = "load_model"
    /\ tried < Len(model_names_to_try)
    /\ tried' = tried + 1
    /\ last_error' = e
    /\ IF tried' < Len(model_names_to_try)
       THEN /\ log' = Append(log, Call("GenerativeModel", model_names_to_try[tried'], e))
            /\ pc' = "load_model"
            /\ summary' = summary
       ELSE /\ log' = log \o
                 <<Call("GenerativeModel", model_names_to_try[tried'], e),
                   Shown("st.error", "Generation failed: " \o
                         "Could not load any model. Last error: " \o last_error')>>
            /\ pc' = "generated"
            /\ summary' = None
    /\ UNCHANGED <<youtube_link, vid, fetched, transcript, model>>

\* model.generate_content(...) and response.text return text
GenerateOk(text) ==
    /\ pc = "generate_content"
    /\ log' = Append(log, Call("generate_content", model, "ok"))
    /\ summary' = Text(text)
    /\ pc' = "generated"
    /\ UNCHANGED <<youtube_link, vid, fetched, transcript, tried, model, last_error>>

\* model.generate_content(...) or response.text raises
GenerateFail ==
    /\ pc = "generate_content"
    /\ log' = log \o <<Call("generate_content", model, "Exception"),
                       Shown("st.error", "Generation failed: " \o ServiceMessage)>>
    /\ summary' = None
    /\ pc' = "generated"
    /\ UNCHANGED <<youtube_link, vid, fetched, transcript, tried, model, last_error>>

\* the shell after the generator: the summary and the two downloads, or the
\* failure notice
AfterGenerator ==
    /\ pc = "generated"
    /\ IF Truthy(summary)
       THEN log' = log \o
                <<Shown("st.success", "Summary generated successfully!"),
                  Shown("st.write", summary.text),
                  Call("st.download_button", "youtube_summary.txt", summary.text),
                  Call("st.download_button", "youtube_summary.md",
                       "# YouTube Summary\n\n" \o summary.text)>>
       ELSE log' = Append(log, Shown("st.error",
                "Failed to generate summary. Please try a different video or check your API key permissions."))
    /\ pc' = "finished"
    /\ UNCHANGED <<youtube_link, vid, fetched, transcript, tried, model,
                   last_error, summary>>

\* the next interaction reruns the script from the top: nothing of the
\* request survives
Rerun ==
    /\ pc \in {"stopped", "finished"}
    /\ pc' = "idle"
    /\ youtube_link' = <<>>
    /\ vid' = NotCalled
    /\ fetched' = <<>>
    /\ transcript' = None
    /\ tried' = 0
    /\ model' = "None"
    /\ last_error' = "None"
    /\ summary' = None
    /\ log' = <<>>

Next ==
    \/ \E url \in URLs : Click(url)
    \/ ExtractId
    \/ \E outcome \in {"ok", "empty"} \cup TranscriptExceptions : ListTranscripts(outcome)
    \/ \E segs \in Transcripts : FetchEnglishOk(segs)
    \/ \E e \in TranscriptExceptions : FetchEnglishFail(e)
    \/ \E segs \in Transcripts : FetchDefaultOk(segs)
    \/ \E e \in TranscriptExceptions : FetchDefaultFail(e)
    \/ AfterRetriever
    \/ LoadModelOk
    \/ \E e \in ModelErrors : LoadModelFail(e)
    \/ \E text \in SummaryTexts : GenerateOk(text)
    \/ GenerateFail
    \/ AfterGenerator
    \/ Rerun

Spec == Init /\ [][Next]_vars

\* ------------------------------------------------------------------------
\* Properties
\* ------------------------------------------------------------------------

\* positions in the log of the entries of the given kinds
At(kinds) == {i \in DOMAIN log : log[i].ev \in kinds}

TranscriptCalls == At({"list_transcripts", "get_transcript"})
Fetches         == At({"get_transcript"})
GeneratorCalls  == At({"GenerativeModel", "generate_content"})
ServiceCalls    == TranscriptCalls \cup GeneratorCalls
Notices         == At({"st.warning", "st.error"})
Displays        == At({"st.write", "st.download_button"})

EnglishFetches == {i \in Fetches : log[i].arg = "en"}
DefaultFetches == {i \in Fetches : log[i].arg = "default"}

\* get_video_id has run on a URL that urlparse accepts and gave no usable
\* identifier: it returned None or '', or raised
ExtractionFailed ==
    /\ vid # NotCalled
    /\ urlparse(youtube_link).exc = "none"
    /\ vid.exc # "none" \/ vid.isNone \/ vid.val = <<>>

\* get_video_id has run and gave an identifier
ExtractionSucceeded ==
    /\ vid.exc = "none"
    /\ ~vid.isNone
    /\ vid.val # <<>>

\* the request is over
Ended == pc \in {"stopped", "finished"}

\* ---- C1 -----------------------------------------------------------------
\* C1: get_video_id never raises; on every URL it returns an identifier or
\* None.
C1_NeverRaises == vid.exc \in {"notcalled", "none"}

\* ---- C2 -----------------------------------------------------------------
\* the first "v=..." field of a query string, as the claim reads it
VFields(qs) == SelectSeq(Split(qs, "&"), LAMBDA f : Take(f, 2) = <<"v", "=">>)

IsCanonicalWatch(url) ==
    LET q == urlparse(url)
    IN  /\ q.exc = "none"
        /\ hostname(q).hasHost
        /\ hostname(q).name \in {www_youtube_com, youtube_com}
        /\ q.path = watch_path

\* C2: for a canonical-host URL with path exactly /watch, get_video_id
\* returns the value of the 'v' parameter when there is one and returns no
\* identifier (None) when there is none.
C2_WatchIdentifier ==
    (vid # NotCalled /\ IsCanonicalWatch(youtube_link)) =>
        LET vs == VFields(urlparse(youtube_link).query)
        IN  IF vs # <<>>
            THEN vid = Returned(UnquotePlus(From(vs[1], 3)))
            ELSE vid = ReturnedNone

\* ---- C3 -----------------------------------------------------------------
IsShortLink(url) ==
    LET q == urlparse(url)
    IN  q.exc = "none" /\ hostname(q).hasHost /\ hostname(q).name = youtu_be

\* the first segment of a path: what stands between the leading '/' and the
\* next '/'
FirstSegment(path) == Before(From(path, 2), "/")

\* C3: for a youtu.be URL get_video_id returns the first path segment only,
\* without any further segment or trailing '/'.
C3_ShortLinkFirstSegment ==
    (vid # NotCalled /\ IsShortLink(youtube_link)) =>
        vid = Returned(FirstSegment(urlparse(youtube_link).path))

\* ---- C4 -----------------------------------------------------------------
\* the notices of the "except Exception" clause of the retriever
GenericErrorNotices ==
    {Shown("st.error", "Error: " \o m) :
        m \in {ExcMessage("KeyError"), ExcMessage("ValueError"),
               ExcMessage("IndexError"), ServiceMessage}}

\* C4: whenever identifier extraction fails, the retriever shows the
\* 'Invalid YouTube URL format' notice and not the generic error notice,
\* returns no transcript and calls the transcript service not at all.
C4_InvalidURLReported ==
    ExtractionFailed =>
        /\ \E i \in Notices : log[i] = Shown("st.error", "Invalid YouTube URL format")
        /\ \A i \in Notices : log[i] \notin GenericErrorNotices
        /\ transcript = None
        /\ TranscriptCalls = {}

\* ---- C5 -----------------------------------------------------------------
ListedEmpty == \E i \in DOMAIN log : log[i] = Call("list_transcripts", "", "empty")

\* C5: when the listing reports no transcripts, the retriever shows the 'No
\* transcripts available' notice right after it, returns no transcript,
\* fetches nothing, and the generator is never called in that request.
C5_NoTranscriptsAvailable ==
    ListedEmpty =>
        /\ \A i \in DOMAIN log : log[i].ev = "list_transcripts" =>
              /\ i < Len(log)
              /\ log[i + 1] = Shown("st.warning", "No transcripts available for this video")
        /\ transcript = None
        /\ Fetches = {}
        /\ GeneratorCalls = {}
        /\ Displays = {}
        /\ pc \in {"retrieved", "stopped"}

C5_Witness == ListedEmpty /\ pc = "stopped"

\* ---- C6 -----------------------------------------------------------------
\* the texts in order with one space between neighbours, built from the end
RECURSIVE SpacedConcat(_)
SpacedConcat(texts) ==
    IF texts = <<>> THEN ""
    ELSE IF Len(texts) = 1 THEN texts[1]
    ELSE SpacedConcat(SubSeq(texts, 1, Len(texts) - 1)) \o " " \o texts[Len(texts)]

DefaultFetchOk   == \E i \in DefaultFetches : log[i].out = "ok"
DefaultFetchFail == \E i \in DefaultFetches : log[i].out # "ok"

\* C6: the English fetch comes first and once; the default fetch is made
\* only right after a failed English fetch and at most once; when it
\* succeeds the result is its segment texts in order joined by single
\* spaces ('Hello','world' gives 'Hello world'); when it fails nothing more
\* is fetched and the request fails.
C6_EnglishThenDefaultOnce ==
    /\ Cardinality(EnglishFetches) <= 1
    /\ Cardinality(DefaultFetches) <= 1
    /\ \A i \in EnglishFetches : \A j \in Fetches : i <= j
    /\ \A i \in DefaultFetches :
          /\ i > 1
          /\ log[i - 1].ev = "get_transcript"
          /\ log[i - 1].arg = "en"
          /\ log[i - 1].out # "ok"
    /\ DefaultFetchOk =>
          /\ transcript = Text(SpacedConcat(fetched))
          /\ fetched = <<"Hello", "world">> => transcript.text = "Hello world"
    /\ DefaultFetchFail =>
          /\ \A i \in DefaultFetches : \A j \in TranscriptCalls : j <= i
          /\ transcript = None
          /\ GeneratorCalls = {}
          /\ Displays = {}
          /\ pc \in {"retrieved", "stopped"}

C6_Witness ==
    /\ DefaultFetchOk
    /\ fetched = <<"Hello", "world">>
    /\ pc = "finished"

\* ---- C7 -----------------------------------------------------------------
ModelTries == SelectSeq(log, LAMBDA e : e.ev = "GenerativeModel")

AllRejected == Len(ModelTries) = 3 /\ ModelTries[3].out # "ok"

\* C7: the candidates are tried in list order, the first accepted one is
\* used and none is tried after it; when all are rejected the generator
\* reports the failure with the last candidate's error, sends no
\* generate-content request and returns nothing.
C7_ModelSelection ==
    /\ Len(ModelTries) <= 3
    /\ \A k \in 1..Len(ModelTries) :
          ModelTries[k].arg =
             <<"gemini-1.5-pro-latest", "gemini-pro", "models/gemini-pro">>[k]
    /\ \A k \in 1..(Len(ModelTries) - 1) : ModelTries[k].out # "ok"
    /\ \A i \in At({"generate_content"}) :
          /\ ModelTries # <<>>
          /\ ModelTries[Len(ModelTries)].out = "ok"
          /\ log[i].arg = ModelTries[Len(ModelTries)].arg
          /\ \A j \in At({"GenerativeModel"}) : j < i
    /\ AllRejected =>
          /\ At({"generate_content"}) = {}
          /\ summary = None
          /\ model = "None"
          /\ \E i \in Notices :
                log[i] = Shown("st.error",
                   "Generation failed: Could not load any model. Last error: "
                      \o ModelTries[3].out)
          /\ Displays = {}

C7_Witness ==
    /\ AllRejected
    /\ ModelTries[2].out # ModelTries[3].out
    /\ pc = "finished"

\* ---- C8 -----------------------------------------------------------------
\* C8: the steps of a request come in the order URL check, retriever,
\* generator, display: no service call with an empty URL; the generator is
\* called only after the retriever returned a transcript; the summary and
\* the downloads are shown only after the generator returned a summary; a
\* run whose retriever or generator failed shows neither.
C8_StepOrder ==
    /\ youtube_link = <<>> => ServiceCalls = {}
    /\ \A i \in TranscriptCalls : ExtractionSucceeded
    /\ \A i \in GeneratorCalls :
          /\ ~transcript.isNone
          /\ transcript.text # ""
          /\ \E j \in Fetches : j < i /\ log[j].out = "ok"
          /\ \A j \in TranscriptCalls : j < i
    /\ \A i \in Displays :
          /\ ~transcript.isNone
          /\ ~summary.isNone
          /\ summary.text # ""
          /\ \E j \in At({"generate_content"}) : j < i /\ log[j].out = "ok"
          /\ \A j \in ServiceCalls : j < i
          /\ log[i].ev = "st.write" => log[i].arg = summary.text
    /\ (transcript.isNone \/ summary.isNone) => Displays = {}
    /\ (pc \in {"retrieved", "stopped"}) => GeneratorCalls = {} /\ Displays = {}
    /\ Cardinality(Displays) \in {0, 3}

C8_Witness == pc = "finished" /\ Displays # {} /\ ~summary.isNone

\* ---- C9 -----------------------------------------------------------------
\* C9: every request that ends without showing a summary has shown at least
\* one warning or error notice.
C9_FailureAlwaysNoticed ==
    (Ended /\ Displays = {}) => Notices # {}

\* ---- C10 ----------------------------------------------------------------
\* the retriever has returned after being given a valid identifier
RetrieverDone ==
    /\ ExtractionSucceeded
    /\ pc \notin {"get_video_id", "list_transcripts", "get_transcript_en",
                  "get_transcript_default"}

\* C10 as stated: with a valid identifier the retriever makes one or two
\* calls to the transcript service, never three or more.
C10_OneOrTwoCalls ==
    /\ Cardinality(TranscriptCalls) <= 2
    /\ RetrieverDone => Cardinality(TranscriptCalls) >= 1

\* C10 amended: with a valid identifier the retriever makes one, two or
\* three calls to the transcript service, never four or more: the listing,
\* the English fetch and, exactly when the English fetch failed, the
\* default fetch.
C10_OneToThreeCalls ==
    /\ Cardinality(TranscriptCalls) <= 3
    /\ RetrieverDone => Cardinality(TranscriptCalls) >= 1
    /\ RetrieverDone =>
          (Cardinality(TranscriptCalls) = 3 <=>
              \E i \in EnglishFetches : log[i].out # "ok")

C10_Witness ==
    /\ RetrieverDone
    /\ Cardinality(TranscriptCalls) = 3

TypeOK ==
    /\ pc \in {"idle", "get_video_id", "list_transcripts", "get_transcript_en",
               "get_transcript_default", "retrieved", "load_model",
               "generate_content", "generated", "stopped", "finished"}
    /\ tried \in 0..Len(model_names_to_try)
====
